---- MODULE Spec2Model ----
(***************************************************************************)
(* Mergington High School activities API (src/src/app.py): the in-memory   *)
(* registry `activities` and the HTTP requests the application answers.    *)
(*                                                                         *)
(*   Spec      requests handled one after the other, inputs in any order   *)
(*   SpecFill  one activity filled with filler students, as                *)
(*             test_signup_at_capacity fills it                            *)
(*   SpecConc  two signup requests handled by two worker threads           *)
(***************************************************************************)
EXTENDS Integers, Sequences, FiniteSets, TLC

VARIABLES activities, prev, req, resp, thr

vars == <<activities, prev, req, resp, thr>>

----------------------------------------------------------------------------
(* Bounds of the model.                                                    *)

\* fresh (never seeded) emails the serial specification may sign up
NumFresh == 1

\* filler emails available to SpecFill: Gym Class holds 2 students and has
\* room for 30, so 29 fillers take it past its capacity
MaxFill == 29

----------------------------------------------------------------------------
(* Strings.                                                                *)

\* Python's `sub in s` on strings
Contains(s, sub) ==
    \E i \in 1..(Len(s) - Len(sub) + 1) : SubSeq(s, i, i + Len(sub) - 1) = sub

\* Python's `x in list`
In(x, list) == \E i \in 1..Len(list) : list[i] = x

\* list.count(x)
Count(x, list) == Cardinality({i \in 1..Len(list) : list[i] = x})

\* f"filler{i}@mergington.edu"
Filler(i) == "filler" \o ToString(i) \o "@mergington.edu"

----------------------------------------------------------------------------
(* The seeded registry.                                                    *)

Activity(d, s, m, p) ==
    [description |-> d, schedule |-> s, max_participants |-> m, participants |-> p]

SeedActivities ==
    [n \in {"Tennis Club", "Basketball Team", "Art Studio", "Music Ensemble",
            "Debate Club", "Science Olympiad", "Chess Club",
            "Programming Class", "Gym Class"} |->
      CASE n = "Tennis Club" ->
             Activity("Learn tennis skills and participate in friendly matches",
                      "Wednesdays and Saturdays, 4:00 PM - 5:30 PM", 16,
                      <<"alex@mergington.edu">>)
        [] n = "Basketball Team" ->
             Activity("Competitive basketball team with regular practices and games",
                      "Mondays and Thursdays, 3:30 PM - 5:00 PM", 15,
                      <<"james@mergington.edu", "marcus@mergington.edu">>)
        [] n = "Art Studio" ->
             Activity("Explore various painting, drawing, and sculpture techniques",
                      "Tuesdays and Fridays, 3:30 PM - 5:00 PM", 18,
                      <<"isabella@mergington.edu">>)
        [] n = "Music Ensemble" ->
             Activity("Perform in school concerts and develop musical skills",
                      "Wednesdays, 4:00 PM - 5:30 PM", 25,
                      <<"lucas@mergington.edu", "grace@mergington.edu">>)
        [] n = "Debate Club" ->
             Activity("Develop argumentation skills and compete in debate tournaments",
                      "Thursdays, 3:30 PM - 5:00 PM", 14,
                      <<"sarah@mergington.edu">>)
        [] n = "Science Olympiad" ->
             Activity("Prepare for science competitions in various STEM disciplines",
                      "Mondays and Wednesdays, 4:00 PM - 5:30 PM", 20,
                      <<"andrew@mergington.edu", "nina@mergington.edu">>)
        [] n = "Chess Club" ->
             Activity("Learn strategies and compete in chess tournaments",
                      "Fridays, 3:30 PM - 5:00 PM", 12,
                      <<"michael@mergington.edu", "daniel@mergington.edu">>)
        [] n = "Programming Class" ->
             Activity("Learn programming fundamentals and build software projects",
                      "Tuesdays and Thursdays, 3:30 PM - 4:30 PM", 20,
                      <<"emma@mergington.edu", "sophia@mergington.edu">>)
        [] n = "Gym Class" ->
             Activity("Physical education and sports activities",
                      "Mondays, Wednesdays, Fridays, 2:00 PM - 3:00 PM", 30,
                      <<"john@mergington.edu", "olivia@mergington.edu">>)]

----------------------------------------------------------------------------
(* Requests and responses.                                                 *)

RootPath == "/"
ActivitiesPath == "/activities"
SignupPath == "/activities/{activity_name}/signup"
UnregisterPath == "/activities/{activity_name}/unregister"

Request(m, p, n, e) == [method |-> m, path |-> p, name |-> n, email |-> e]

NoRequest == Request("", "", "", "")

\* the registry's JSON rendering is the registry; a response without one
\* carries the empty mapping
NoBody == <<>>

Response(s, d, m, l, b) ==
    [status |-> s, detail |-> d, message |-> m, location |-> l, body |-> b]

NoResponse == Response(0, "", "", "", NoBody)

\* raise HTTPException(status_code=s, detail=d)
HTTPException(s, d) == Response(s, d, "", "", NoBody)

\* return {"message": m}
Message(m) == Response(200, "", m, "", NoBody)

\* the routes the application registers with its decorators
Routes ==
    {<<"GET", RootPath>>, <<"GET", ActivitiesPath>>, <<"POST", SignupPath>>}

----------------------------------------------------------------------------
(* The handlers.                                                           *)

\* def root()
root == Response(307, "", "", "/static/index.html", NoBody)

\* def get_activities()
get_activities(acts) == Response(200, "", "", "", acts)

\* signup_for_activity without its membership check
signup_unchecked(acts, activity_name, email) ==
    IF activity_name \notin DOMAIN acts
    THEN [acts |-> acts, resp |-> HTTPException(404, "Activity not found")]
    ELSE [acts |-> [acts EXCEPT ![activity_name].participants = Append(@, email)],
          resp |-> Message("Signed up " \o email \o " for " \o activity_name)]

\* signup_for_activity checking membership only after the append
signup_checks_late(acts, activity_name, email) ==
    IF activity_name \notin DOMAIN acts
    THEN [acts |-> acts, resp |-> HTTPException(404, "Activity not found")]
    ELSE LET added == [acts EXCEPT ![activity_name].participants = Append(@, email)] IN
         IF In(email, acts[activity_name].participants)
         THEN [acts |-> added,
               resp |-> HTTPException(400, "Student already signed up for this activity")]
         ELSE [acts |-> added,
               resp |-> Message("Signed up " \o email \o " for " \o activity_name)]

\* signup_for_activity creating the activity it does not find
signup_creates(acts, activity_name, email) ==
    LET known == [n \in DOMAIN acts \cup {activity_name} |->
                    IF n \in DOMAIN acts THEN acts[n] ELSE Activity("", "", 0, <<>>)]
        activity == known[activity_name] IN
    IF In(email, activity.participants)
    THEN [acts |-> acts,
          resp |-> HTTPException(400, "Student already signed up for this activity")]
    ELSE [acts |-> [known EXCEPT ![activity_name].participants = Append(@, email)],
          resp |-> Message("Signed up " \o email \o " for " \o activity_name)]

\* signup_for_activity inserting the student at the head of the list
signup_prepends(acts, activity_name, email) ==
    IF activity_name \notin DOMAIN acts
    THEN [acts |-> acts, resp |-> HTTPException(404, "Activity not found")]
    ELSE LET activity == acts[activity_name] IN
         IF In(email, activity.participants)
         THEN [acts |-> acts,
               resp |-> HTTPException(400, "Student already signed up for this activity")]
         ELSE [acts |-> [acts EXCEPT ![activity_name].participants = <<email>> \o @],
               resp |-> Message("Signed up " \o email \o " for " \o activity_name)]

\* signup_for_activity counting the remaining places down in max_participants
signup_counts_down(acts, activity_name, email) ==
    IF activity_name \notin DOMAIN acts
    THEN [acts |-> acts, resp |-> HTTPException(404, "Activity not found")]
    ELSE LET activity == acts[activity_name] IN
         IF In(email, activity.participants)
         THEN [acts |-> acts,
               resp |-> HTTPException(400, "Student already signed up for this activity")]
         ELSE [acts |-> [acts EXCEPT ![activity_name].participants = Append(@, email),
                                     ![activity_name].max_participants = @ - 1],
               resp |-> Message("Signed up " \o email \o " for " \o activity_name)]

\* def signup_for_activity(activity_name, email): the registry and the
\* response it leaves
signup_for_activity(acts, activity_name, email) ==
    IF activity_name \notin DOMAIN acts
    THEN [acts |-> acts, resp |-> HTTPException(404, "Activity not found")]
    ELSE LET activity == acts[activity_name] IN
         IF In(email, activity.participants)
         THEN [acts |-> acts,
               resp |-> HTTPException(400, "Student already signed up for this activity")]
         ELSE [acts |-> [acts EXCEPT ![activity_name].participants = Append(@, email)],
               resp |-> Message("Signed up " \o email \o " for " \o activity_name)]

\* a request no registered route answers: 405 when the path is routed under
\* another method, 404 otherwise
unrouted(method, path) ==
    IF \E r \in Routes : r[2] = path
    THEN HTTPException(405, "Method Not Allowed")
    ELSE HTTPException(404, "Not Found")

----------------------------------------------------------------------------
(* Worker threads of SpecConc.                                             *)

Threads == {"t1", "t2"}

Idle == [pc |-> "idle", name |-> "", email |-> "", status |-> 0, detail |-> ""]

----------------------------------------------------------------------------
(* Serial requests.                                                        *)

Init ==
    /\ activities = SeedActivities
    /\ prev = SeedActivities
    /\ req = NoRequest
    /\ resp = NoResponse
    /\ thr = [t \in Threads |-> Idle]

\* GET /
Root ==
    /\ req' = Request("GET", RootPath, "", "")
    /\ resp' = root
    /\ prev' = activities
    /\ UNCHANGED <<activities, thr>>

\* GET /activities
GetActivities ==
    /\ req' = Request("GET", ActivitiesPath, "", "")
    /\ resp' = get_activities(activities)
    /\ prev' = activities
    /\ UNCHANGED <<activities, thr>>

\* POST /activities/{name}/signup?email={email}
Signup(name, email) ==
    LET r == signup_for_activity(activities, name, email) IN
    /\ req' = Request("POST", SignupPath, name, email)
    /\ activities' = r.acts
    /\ resp' = r.resp
    /\ prev' = activities
    /\ UNCHANGED thr

\* any other method and path, DELETE /activities/{name}/unregister among them
Unrouted(method, path, name, email) ==
    /\ <<method, path>> \notin Routes
    /\ req' = Request(method, path, name, email)
    /\ resp' = unrouted(method, path)
    /\ prev' = activities
    /\ UNCHANGED <<activities, thr>>

\* activity names of the requests: two registry keys, one of them in another
\* case, and a name that is no key
Names == {"Chess Club", "Tennis Club", "chess club", "Nonexistent Club"}

\* emails of the requests: one seeded in each of the two activities, and
\* fresh ones
Emails ==
    {"michael@mergington.edu", "alex@mergington.edu"}
        \cup {Filler(i) : i \in 0..(NumFresh - 1)}

Methods == {"GET", "POST", "DELETE"}

Paths == {RootPath, ActivitiesPath, SignupPath, UnregisterPath}

NamesOf(path) == IF path \in {SignupPath, UnregisterPath} THEN Names ELSE {""}

EmailsOf(path) == IF path \in {SignupPath, UnregisterPath} THEN Emails ELSE {""}

Next ==
    \/ Root
    \/ GetActivities
    \/ \E name \in Names, email \in Emails : Signup(name, email)
    \/ \E method \in Methods, path \in Paths :
         \E name \in NamesOf(path), email \in EmailsOf(path) :
            Unrouted(method, path, name, email)

Spec == Init /\ [][Next]_vars

----------------------------------------------------------------------------
(* Filling one activity.  Fresh emails are interchangeable, so the fillers *)
(* sign up in the order of their numbers, as test_signup_at_capacity adds  *)
(* them.                                                                   *)

FillName == "Gym Class"

NewStudent == "newstudent@mergington.edu"

FillSignup(i) ==
    /\ i = 0 \/ In(Filler(i - 1), activities[FillName].participants)
    /\ Signup(FillName, Filler(i))

NextFill ==
    \/ GetActivities
    \/ \E i \in 0..(MaxFill - 1) : FillSignup(i)
    \/ Signup(FillName, NewStudent)
    \/ Signup("Nonexistent Club", NewStudent)

SpecFill == Init /\ [][NextFill]_vars

----------------------------------------------------------------------------
(* Two requests in two worker threads.  The handler is a plain `def`, which *)
(* the framework runs in a thread pool; a thread may be preempted between   *)
(* any two statements of the handler.                                       *)

ConcNames == {"Chess Club", "Nonexistent Club"}

ConcEmails == {"michael@mergington.edu", Filler(0)}

\* the request reaches the handler
Receive(t, name, email) ==
    /\ thr[t].pc = "idle"
    /\ thr' = [thr EXCEPT ![t] = [@ EXCEPT !.pc = "exists", !.name = name, !.email = email]]
    /\ UNCHANGED <<activities, prev, req, resp>>

\* if activity_name not in activities: raise HTTPException(404)
CheckExists(t) ==
    /\ thr[t].pc = "exists"
    /\ thr' = [thr EXCEPT ![t] =
                 IF thr[t].name \notin DOMAIN activities
                 THEN [@ EXCEPT !.pc = "done", !.status = 404,
                                !.detail = "Activity not found"]
                 ELSE [@ EXCEPT !.pc = "member"]]
    /\ UNCHANGED <<activities, prev, req, resp>>

\* if email in activity["participants"]: raise HTTPException(400)
CheckMember(t) ==
    /\ thr[t].pc = "member"
    /\ thr' = [thr EXCEPT ![t] =
                 IF In(thr[t].email, activities[thr[t].name].participants)
                 THEN [@ EXCEPT !.pc = "done", !.status = 400,
                                !.detail = "Student already signed up for this activity"]
                 ELSE [@ EXCEPT !.pc = "append"]]
    /\ UNCHANGED <<activities, prev, req, resp>>

\* activity["participants"].append(email); return {"message": ...}
AppendStudent(t) ==
    /\ thr[t].pc = "append"
    /\ activities' = [activities EXCEPT ![thr[t].name].participants = Append(@, thr[t].email)]
    /\ thr' = [thr EXCEPT ![t] = [@ EXCEPT !.pc = "done", !.status = 200]]
    /\ UNCHANGED <<prev, req, resp>>

NextConc ==
    \/ \E t \in Threads, name \in ConcNames, email \in ConcEmails : Receive(t, name, email)
    \/ \E t \in Threads : CheckExists(t)
    \/ \E t \in Threads : CheckMember(t)
    \/ \E t \in Threads : AppendStudent(t)

SpecConc == Init /\ [][NextConc]_vars

----------------------------------------------------------------------------
(* Properties.                                                             *)

IsSignup(r) == r.method = "POST" /\ r.path = SignupPath

IsUnregister(r) == r.method = "DELETE" /\ r.path = UnregisterPath

IsList(r) == r.method = "GET" /\ r.path = ActivitiesPath

Participants(acts, name) == acts[name].participants

\* every key's list is the same in both registries, but for the one named
OthersUnchanged(name) ==
    /\ DOMAIN activities = DOMAIN prev
    /\ \A a \in DOMAIN prev \ {name} :
          Participants(activities, a) = Participants(prev, a)

\* list.remove(x): the list without the first occurrence of x
Remove(list, x) ==
    LET i == CHOOSE k \in 1..Len(list) :
                 list[k] = x /\ \A j \in 1..(k - 1) : list[j] # x
    IN  SubSeq(list, 1, i - 1) \o SubSeq(list, i + 1, Len(list))

\* C1: every activity holds at most max_participants students, after any
\* sequence of requests from the seeded registry.
CapacityInvariant ==
    \A a \in DOMAIN activities :
        Len(Participants(activities, a)) <= activities[a].max_participants

\* C2: a signup with a new email for an activity whose list is as long as
\* max_participants answers 400 with a detail containing "at capacity" and
\* leaves the list as it was.
SignupAtCapacityRejected ==
    (/\ IsSignup(req)
     /\ req.name \in DOMAIN prev
     /\ Len(Participants(prev, req.name)) = prev[req.name].max_participants
     /\ ~In(req.email, Participants(prev, req.name)))
    => /\ resp.status = 400
       /\ Contains(resp.detail, "at capacity")
       /\ Participants(activities, req.name) = Participants(prev, req.name)

\* C3: after any sequence of requests handled one after the other, no email
\* occurs twice in the participants of one activity.
UniquenessInvariant ==
    \A a \in DOMAIN activities :
        \A i, j \in 1..Len(Participants(activities, a)) :
            i # j => Participants(activities, a)[i] # Participants(activities, a)[j]

\* a second signup of a student an earlier signup added was answered, and the
\* list still holds that student
UniquenessWitness ==
    /\ IsSignup(req)
    /\ req.name \in DOMAIN activities
    /\ resp.status = 400
    /\ Count(req.email, Participants(activities, req.name)) = 1
    /\ Count(req.email, Participants(SeedActivities, req.name)) = 0

\* C4: a signup with an email the activity already holds answers 400 with a
\* detail containing "already signed up" and leaves that activity's list
\* (contents, order, count) as it was.
DuplicateSignupRejected ==
    (/\ IsSignup(req)
     /\ req.name \in DOMAIN prev
     /\ In(req.email, Participants(prev, req.name)))
    => /\ resp.status = 400
       /\ Contains(resp.detail, "already signed up")
       /\ Participants(activities, req.name) = Participants(prev, req.name)

\* a duplicate signup of a seeded student into a list that has grown since
DuplicateSignupWitness ==
    /\ IsSignup(req)
    /\ req.name \in DOMAIN prev
    /\ In(req.email, Participants(SeedActivities, req.name))
    /\ Len(Participants(prev, req.name)) > Len(Participants(SeedActivities, req.name))
    /\ resp.status = 400

\* C5: a signup for a name that is not, letter for letter, a key of the
\* registry answers 404 "Activity not found", creates no key and changes no
\* participants list.
UnknownActivityRejected ==
    (IsSignup(req) /\ req.name \notin DOMAIN prev)
    => /\ resp.status = 404
       /\ resp.detail = "Activity not found"
       /\ DOMAIN activities = DOMAIN prev
       /\ \A a \in DOMAIN prev :
             Participants(activities, a) = Participants(prev, a)

\* a signup for "chess club", which differs from the key "Chess Club" in case
\* only, was answered 404
UnknownActivityWitness ==
    /\ IsSignup(req)
    /\ req.name = "chess club"
    /\ "Chess Club" \in DOMAIN prev
    /\ resp.status = 404
    /\ activities # SeedActivities

\* C6: a signup with a new email for an existing activity with room answers
\* 200 with the message "Signed up {email} for {name}", appends the email at
\* the end of that activity's list and changes no other list.
SignupAppends ==
    (/\ IsSignup(req)
     /\ req.name \in DOMAIN prev
     /\ Len(Participants(prev, req.name)) < prev[req.name].max_participants
     /\ ~In(req.email, Participants(prev, req.name)))
    => /\ resp.status = 200
       /\ resp.message = "Signed up " \o req.email \o " for " \o req.name
       /\ Participants(activities, req.name) = Append(Participants(prev, req.name), req.email)
       /\ Len(Participants(activities, req.name)) = Len(Participants(prev, req.name)) + 1
       /\ OthersUnchanged(req.name)

\* a successful signup into a list that had grown already, while another
\* activity had grown too
SignupAppendsWitness ==
    /\ IsSignup(req)
    /\ resp.status = 200
    /\ req.name = "Chess Club"
    /\ Len(Participants(prev, "Chess Club")) > Len(Participants(SeedActivities, "Chess Club"))
    /\ Participants(prev, "Tennis Club") # Participants(SeedActivities, "Tennis Club")

\* C7: an unregister request answers 404 "Activity not found" for a name that
\* is no key, 400 with a detail containing "not registered" for an email the
\* activity does not hold (the registry unchanged in both cases), and
\* otherwise 200, removing that email from that activity and nothing else.
UnregisterOutcome ==
    IsUnregister(req)
    => IF req.name \notin DOMAIN prev
       THEN resp.status = 404 /\ resp.detail = "Activity not found" /\ activities = prev
       ELSE IF ~In(req.email, Participants(prev, req.name))
       THEN resp.status = 400 /\ Contains(resp.detail, "not registered") /\ activities = prev
       ELSE /\ resp.status = 200
            /\ Participants(activities, req.name) = Remove(Participants(prev, req.name), req.email)
            /\ OthersUnchanged(req.name)

\* C8: unregister(A, e) right after a successful signup(A, e) succeeds and
\* returns the registry to what it was before the signup.
SignupUnregisterRoundTrip ==
    [][(/\ IsSignup(req)
        /\ resp.status = 200
        /\ IsUnregister(req')
        /\ req'.name = req.name
        /\ req'.email = req.email)
       => (resp'.status = 200 /\ activities' = prev)]_vars

\* C9: the keys of the registry and each activity's description, schedule
\* and max_participants stay as seeded, and a list request leaves the
\* registry as it was.
RegistryFrame ==
    /\ DOMAIN activities = DOMAIN SeedActivities
    /\ \A a \in DOMAIN SeedActivities :
          /\ activities[a].description = SeedActivities[a].description
          /\ activities[a].schedule = SeedActivities[a].schedule
          /\ activities[a].max_participants = SeedActivities[a].max_participants
    /\ IsList(req) => (activities = prev /\ resp.body = activities)

\* the registry was listed after signups had changed it
RegistryFrameWitness ==
    /\ IsList(req)
    /\ resp.status = 200
    /\ Participants(activities, "Chess Club") # Participants(SeedActivities, "Chess Club")
    /\ Participants(activities, "Tennis Club") # Participants(SeedActivities, "Tennis Club")

\* C10: two signups for the same existing activity and the same new email,
\* handled concurrently, end with one 200, one 400 and the email once in the
\* list.
ConcurrentSignupSerialized ==
    \A a \in DOMAIN SeedActivities, e \in ConcEmails :
        (/\ ~In(e, Participants(SeedActivities, a))
         /\ \A t \in Threads :
               thr[t].pc = "done" /\ thr[t].name = a /\ thr[t].email = e)
        => /\ \E t \in Threads : thr[t].status = 200
           /\ \E t \in Threads : thr[t].status = 400
           /\ Count(e, Participants(activities, a)) = 1

====
